---- MODULE Spec2Model ----
(***************************************************************************)
(* Model of data/safe_subprocess.py: run() launches a child process,      *)
(* drains its stdout/stderr under a byte cap, samples the process tree,   *)
(* polls for exit during timeout_seconds * 10 ticks, kills the process    *)
(* group (or the single process) and assembles the result record.         *)
(*                                                                         *)
(* Time is counted in sample intervals (SLEEP_BETWEEN_READS = 0.1 s): a   *)
(* sleep takes one unit, steps of the control loop take none.  Bytes of a *)
(* stream are identified by their position in what the child writes; a    *)
(* chunk is a pair <<start, len>> of positions.                           *)
(***************************************************************************)
EXTENDS Integers, Sequences, FiniteSets, TLC

\* ---------------------------------------------------------------- constants
MAX_BYTES_PER_READ == 1024
\* ticks per second of timeout: max_iterations = timeout_seconds * 10
TICKS_PER_SECOND == 10
\* t_out.join(timeout=0.5): five sample intervals
JOIN_TIMEOUT_TICKS == 5
\* status poll() reports for a child ended by SIGKILL
SIGKILL_STATUS == -9
\* lines 22-25: clock ticks per second (the fallback value, the usual one)
SC_CLK_TCK == 100
\* line 26: os.cpu_count() of the modelled host
CPU_COUNT == 2

\* ------------------------------------------------------------------- bounds
MaxTimeout == 1
MaxMem == 1
FloodBytes == 5000
ErrBytes == 1500
MaxCpu == 1
\* bytes an OS pipe holds before a write blocks
PipeCapacity == 65536
\* more than PipeCapacity plus what ten ticks drain (10 * 1024)
GushBytes == 80000
\* records of the input file of run_eval
MaxRecords == 3

Inv == {1, 2}
Streams == {"stdout", "stderr"}
CallerPgid == 0

None == <<>>
Some(x) == <<x>>
IsNone(o) == o = <<>>
Val(o) == o[1]

Max(a, b) == IF a >= b THEN a ELSE b
Min(a, b) == IF a <= b THEN a ELSE b

\* ----------------------------------------------------------- child programs
\* A child program is a sequence of operations: write n bytes to a stream,
\* fork a descendant that outlives it, exit with a status.
W(s, n) == [op |-> "write", s |-> s, n |-> n, code |-> 0]
F == [op |-> "fork", s |-> "stdout", n |-> 0, code |-> 0]
X(c) == [op |-> "exit", s |-> "stdout", n |-> 0, code |-> c]

Prog(name) ==
    CASE name = "echo"   -> <<W("stdout", 6), X(0)>>
      [] name = "exit2"  -> <<X(2)>>
      [] name = "flood"  -> <<W("stdout", FloodBytes), W("stderr", ErrBytes), X(1)>>
      [] name = "forker" -> <<F, X(0)>>
      [] name = "gusher" -> <<W("stdout", GushBytes), X(0)>>

ProgNames == {"echo", "exit2", "flood", "forker"}

\* The byte the program writes at position k (0-based) of stream s.
\* echo writes "hello\n"; flood writes 'x' with a byte 0xFF (never valid in
\* UTF-8) at every 1000th position.
Hello == <<104, 101, 108, 108, 111, 10>>
ByteAt(name, s, k) ==
    IF name = "echo" THEN Hello[k + 1]
    ELSE IF k % 1000 = 999 THEN 255 ELSE 120

\* ------------------------------------------------------------------- state
VARIABLES
    host,           \* [platform, sandbox, mem, cpu, faulty]: os.name, SANDBOX_UID set,
                    \* memory readings, CPU tick readings, reads and samples may fail
    callerAlive,    \* the process that calls run() is alive
    req,            \* req[i]: the arguments of invocation i
    pc,             \* pc[i]: position of invocation i in run()
    tick,           \* tick[i]: iterations of the polling loop completed
    elapsed,        \* elapsed[i]: time since start_time, in sample intervals
    process_group_id, \* process_group_id[i]: None or the group to signal
    exit_code,      \* exit_code[i]: None or the status poll() returned
    process_peak_memory,
    sampled,        \* sampled[i]: tree memory values the samples reported
    saved_bytes,    \* saved_bytes[i][s]: chunks appended, in order
    bytes_read,     \* bytes_read[i][s]: running byte counter
    pipe,           \* pipe[i][s]: [w |-> bytes written, r |-> bytes read, open |-> reader open]
    child,          \* child[i]: the tracked process; exitAt is the time (elapsed[i]) at
                    \* which it ended by itself, -1 before that; pend is what is left
                    \* of a write the pipe could not take whole
    desc,           \* desc[i]: a descendant the child forked
    thr,            \* thr[i][s]: reader thread of stream s ("none", "running", "done",
                    \* or "failed" when a read error ended it)
    killAt,         \* killAt[i]: None or elapsed time when the kill was issued
    result,         \* result[i]: None or the record run() returned
    cur_cpu,        \* cur_cpu[i]: CPU ticks of the tree the last sample reported
    sample_failed   \* sample_failed[i]: some sample of invocation i has failed

runVars == <<host, callerAlive, req, pc, tick, elapsed, process_group_id, exit_code,
             process_peak_memory, sampled, saved_bytes, bytes_read, pipe, child,
             desc, thr, killAt, result, cur_cpu, sample_failed>>

\* state of run_eval.run_one and of the loop of main() that calls it
VARIABLES
    run_one_pc,      \* position in main() / run_one()
    records_left,    \* records of the input file not yet read
    language_config, \* None or the environment build_code_env returned
    leaving,         \* how the try block was left: "return" or "raise"
    env_log          \* env_log[e]: calls that received environment e, in order

evalVars == <<run_one_pc, records_left, language_config, leaving, env_log>>

vars == <<runVars, evalVars>>

NoChild == [state |-> "none", ip |-> 1, status |-> 0, pgid |-> -1, exitAt |-> -1,
            pend |-> 0]
NoDesc == [state |-> "none", pgid |-> -1]
DeadDesc == [state |-> "dead", pgid |-> -1]

\* one tick more than the budget
max_iterations_more(i) == req[i].timeout_seconds * TICKS_PER_SECOND + 1
\* lines 145 and 160
max_iterations(i) == req[i].timeout_seconds * TICKS_PER_SECOND

RunInit(active, hosts, reqs) ==
    /\ host \in hosts
    /\ callerAlive = TRUE
    /\ \E r \in reqs : req = [i \in Inv |-> r]
    /\ pc = [i \in Inv |-> IF i \in active THEN "launch" ELSE "off"]
    /\ tick = [i \in Inv |-> 0]
    /\ elapsed = [i \in Inv |-> 0]
    /\ process_group_id = [i \in Inv |-> None]
    /\ exit_code = [i \in Inv |-> None]
    /\ process_peak_memory = [i \in Inv |-> 0]
    /\ sampled = [i \in Inv |-> {}]
    /\ saved_bytes = [i \in Inv |-> [s \in Streams |-> <<>>]]
    /\ bytes_read = [i \in Inv |-> [s \in Streams |-> 0]]
    /\ pipe = [i \in Inv |-> [s \in Streams |-> [w |-> 0, r |-> 0, open |-> FALSE]]]
    /\ child = [i \in Inv |-> NoChild]
    /\ desc = [i \in Inv |-> NoDesc]
    /\ thr = [i \in Inv |-> [s \in Streams |-> "none"]]
    /\ killAt = [i \in Inv |-> None]
    /\ result = [i \in Inv |-> None]
    /\ cur_cpu = [i \in Inv |-> 0]
    /\ sample_failed = [i \in Inv |-> FALSE]

\* run_eval's main() is not running
EvalOff ==
    /\ run_one_pc = "off"
    /\ records_left = 0
    /\ language_config = None
    /\ leaving = "return"
    /\ env_log = <<>>

InitWith(active, hosts, reqs) == RunInit(active, hosts, reqs) /\ EvalOff

\* the hosts on which the child gets a group of its own or none: POSIX with a
\* sandbox identity, Windows without one
IsolatingHosts(mem, cpu, faulty) ==
    {[platform |-> "posix", sandbox |-> TRUE, mem |-> mem, cpu |-> cpu,
      faulty |-> faulty],
     [platform |-> "nt", sandbox |-> FALSE, mem |-> mem, cpu |-> cpu,
      faulty |-> faulty]}

\* the default cap and a one-second timeout
OneReq(progs) == [timeout_seconds : {1}, max_output_size : {2048}, prog : progs]

\* One invocation.  Every platform, with and without a sandbox identity, on a
\* host whose reads and samples succeed; then, for the default cap: a host
\* whose reads and samples may fail, a program that writes more than a pipe
\* holds, and a host whose samples report CPU ticks.
Init ==
    \/ InitWith({1},
                [platform : {"posix", "nt"}, sandbox : BOOLEAN, mem : {0 .. MaxMem},
                 cpu : {{0}}, faulty : {FALSE}],
                [timeout_seconds : {MaxTimeout}, max_output_size : {0, 100, 2048},
                 prog : ProgNames])
    \/ InitWith({1}, IsolatingHosts({1}, {0}, TRUE), OneReq({"exit2"}))
    \/ InitWith({1}, IsolatingHosts({0}, {0}, FALSE), OneReq({"gusher"}))
    \/ InitWith({1}, IsolatingHosts({0}, 0 .. MaxCpu, FALSE), OneReq({"echo"}))

\* ------------------------------------------------------------ pure helpers
\* lines 102-107: only a sandbox identity gives the child a session (and so a
\* process group) of its own; CREATE_NEW_PROCESS_GROUP does on Windows.
LaunchPgid(i) ==
    IF host.sandbox \/ host.platform = "nt" THEN i ELSE CallerPgid

\* line 114: os.getpgid exists on POSIX only
GroupIdOf(i) ==
    IF host.platform = "posix" THEN Some(LaunchPgid(i)) ELSE None

\* the last sample instead of the maximum
NewPeakLast(peak, cur_mem) == cur_mem
\* lines 149 and 165: process_peak_memory = max(process_peak_memory, cur_mem or 0)
NewPeak(peak, cur_mem) == Max(peak, cur_mem)

\* no cap at all
AcceptsAlways(counter, max_output_size) == TRUE
\* lines 125 and 170: a chunk is kept only while the counter is below the cap
Accepts(counter, max_output_size) == counter < max_output_size

\* a timeout that is never reported
TimeoutOfNever(ec) == FALSE
\* line 189
TimeoutOf(ec) == IsNone(ec)

\* line 190
ExitCodeOf(ec) == IF IsNone(ec) THEN -1 ELSE Val(ec)

\* b"".join(chunks): the bytes of the chunks, in order
RECURSIVE JoinChunks(_, _, _)
JoinChunks(name, s, chunks) ==
    IF chunks = <<>> THEN <<>>
    ELSE [k \in 1 .. Head(chunks)[2] |-> ByteAt(name, s, Head(chunks)[1] + k - 1)]
         \o JoinChunks(name, s, Tail(chunks))

\* .decode("utf-8", errors="ignore") on the model's alphabet: ASCII bytes are
\* kept, a byte 0xFF is invalid wherever it stands and is dropped.
IsAscii(b) == b < 128
Decode(bytes) == SelectSeq(bytes, IsAscii)

\* lines 182-187, effect of os.killpg(g, SIGKILL) on one process record
KilledChild(c, g) ==
    IF c.state = "running" /\ c.pgid = g
    THEN [c EXCEPT !.state = "zombie", !.status = SIGKILL_STATUS]
    ELSE c

KilledDesc(d, g) ==
    IF d.state = "running" /\ d.pgid = g THEN DeadDesc ELSE d

Writers(i) == child[i].state = "running" \/ desc[i].state = "running"

Avail(i, s) == pipe[i][s].w - pipe[i][s].r

\* the kill is skipped where no reader thread has to be joined
AfterLoopNoKill == IF host.platform = "nt" THEN "join_out" ELSE "assemble"
\* position after the polling loop: the reader threads are joined on the
\* thread path (lines 156-157), the kill follows at once otherwise
AfterLoop == IF host.platform = "nt" THEN "join_out" ELSE "kill"

\* ------------------------------------------------------------ run(): launch
\* a launch failure that is swallowed: run() goes on to assemble a result
LaunchFailSwallowed(i) ==
    /\ callerAlive /\ pc[i] = "launch"
    /\ pc' = [pc EXCEPT ![i] = "assemble"]
    /\ UNCHANGED <<evalVars, cur_cpu, sample_failed, host, callerAlive, req, tick, elapsed, process_group_id, exit_code,
                   process_peak_memory, sampled, saved_bytes, bytes_read, pipe, child,
                   desc, thr, killAt, result>>

\* line 108 raises: bad executable, permission denied; on Windows Popen
\* rejects the user/group arguments of a sandbox identity.
LaunchFail(i) ==
    /\ callerAlive /\ pc[i] = "launch"
    /\ pc' = [pc EXCEPT ![i] = "raised"]
    /\ UNCHANGED <<evalVars, cur_cpu, sample_failed, host, callerAlive, req, tick, elapsed, process_group_id, exit_code,
                   process_peak_memory, sampled, saved_bytes, bytes_read, pipe, child,
                   desc, thr, killAt, result>>

\* lines 89-144: Popen, getpgid, the empty buffers, the reader threads
LaunchOk(i) ==
    /\ callerAlive /\ pc[i] = "launch"
    /\ ~(host.platform = "nt" /\ host.sandbox)
    /\ child' = [child EXCEPT ![i] = [state |-> "running", ip |-> 1, status |-> 0,
                                      pgid |-> LaunchPgid(i), exitAt |-> -1,
                                      pend |-> 0]]
    /\ pipe' = [pipe EXCEPT ![i] = [s \in Streams |-> [w |-> 0, r |-> 0, open |-> TRUE]]]
    /\ process_group_id' = [process_group_id EXCEPT ![i] = GroupIdOf(i)]
    /\ thr' = [thr EXCEPT ![i] = [s \in Streams |->
                                    IF host.platform = "nt" THEN "running" ELSE "none"]]
    /\ pc' = [pc EXCEPT ![i] = "sample"]
    /\ UNCHANGED <<evalVars, cur_cpu, sample_failed, host, callerAlive, req, tick, elapsed, exit_code,
                   process_peak_memory, sampled, saved_bytes, bytes_read,
                   desc, killAt, result>>

\* ------------------------------------------------------ run(): polling loop
\* lines 49-79: <<cpu ticks, peak memory>> of the tree; ticks are read on
\* POSIX only (line 54), and any failure gives (0, 0) (lines 78-79)
get_process_cpu_mem(ok, cpu, mem) ==
    IF ok THEN <<IF host.platform = "posix" THEN cpu ELSE 0, mem>> ELSE <<0, 0>>

\* a failed sample ends run() with an error
SampleNextRaise(ok) ==
    IF ok THEN (IF host.platform = "nt" THEN "poll" ELSE "read_out") ELSE "raised"
\* what follows the sample in a tick: lines 152 and 168, whether or not the
\* sample succeeded (the try of lines 147-151 and 163-167 swallows a failure)
SampleNext(ok) == IF host.platform = "nt" THEN "poll" ELSE "read_out"

\* lines 147-151 and 163-167: cur_cpu and cur_mem are what get_process_cpu_mem
\* returns; only cur_mem is used afterwards, process_cpu is never assigned.
SampleWith(i, ok) ==
    /\ callerAlive /\ pc[i] = "sample"
    /\ \E cpu \in host.cpu, mem \in host.mem \cup {0} :
          LET got == get_process_cpu_mem(ok, cpu, mem) IN
          /\ cur_cpu' = [cur_cpu EXCEPT ![i] = got[1]]
          /\ process_peak_memory' =
                [process_peak_memory EXCEPT ![i] = NewPeak(process_peak_memory[i], got[2])]
          /\ sampled' = [sampled EXCEPT ![i] = IF ok THEN @ \cup {got[2]} ELSE @]
    /\ sample_failed' = [sample_failed EXCEPT ![i] = @ \/ ~ok]
    /\ pc' = [pc EXCEPT ![i] = SampleNext(ok)]
    /\ UNCHANGED <<evalVars, host, callerAlive, req, tick, elapsed, process_group_id,
                   exit_code, saved_bytes, bytes_read, pipe, child, desc, thr, killAt,
                   result>>

Sample(i) == callerAlive /\ SampleWith(i, TRUE)

\* the sample fails: /proc unreadable, the process gone, psutil error
SampleFail(i) == host.faulty /\ SampleWith(i, FALSE)

\* lines 168-175 for one stream: a non-blocking read of at most
\* MAX_BYTES_PER_READ bytes, kept when non-empty and the counter is below the cap
LoopRead(i, s, next) ==
    LET n == Min(Avail(i, s), MAX_BYTES_PER_READ) IN
    /\ pipe' = [pipe EXCEPT ![i][s].r = @ + n]
    /\ IF n > 0 /\ Accepts(bytes_read[i][s], req[i].max_output_size)
       THEN /\ saved_bytes' = [saved_bytes EXCEPT ![i][s] = Append(@, <<pipe[i][s].r, n>>)]
            /\ bytes_read' = [bytes_read EXCEPT ![i][s] = @ + n]
       ELSE UNCHANGED <<saved_bytes, bytes_read>>
    /\ pc' = [pc EXCEPT ![i] = next]
    /\ UNCHANGED <<evalVars, cur_cpu, sample_failed, host, callerAlive, req, tick, elapsed, process_group_id, exit_code,
                   process_peak_memory, sampled, child, desc, thr, killAt, result>>

ReadOut(i) ==
    /\ callerAlive /\ pc[i] = "read_out"
    /\ LoopRead(i, "stdout", "read_err")

ReadErr(i) ==
    /\ callerAlive /\ pc[i] = "read_err"
    /\ LoopRead(i, "stderr", "poll")

\* lines 168-169 stand outside any try: an error raised by p.stdout.read or
\* p.stderr.read leaves run() at once, before the kill and the result
LoopReadFail(i) ==
    /\ host.faulty /\ callerAlive /\ pc[i] \in {"read_out", "read_err"}
    /\ pc' = [pc EXCEPT ![i] = "read_failed"]
    /\ UNCHANGED <<evalVars, cur_cpu, sample_failed, host, callerAlive, req, tick, elapsed, process_group_id, exit_code,
                   process_peak_memory, sampled, saved_bytes, bytes_read, pipe, child,
                   desc, thr, killAt, result>>

\* lines 152-154 and 176-178: p.poll() reaps a child that has ended
Poll(i) ==
    /\ callerAlive /\ pc[i] = "poll"
    /\ IF child[i].state = "zombie"
       THEN /\ child' = [child EXCEPT ![i].state = "reaped"]
            /\ exit_code' = [exit_code EXCEPT ![i] = Some(child[i].status)]
            /\ pc' = [pc EXCEPT ![i] = AfterLoop]
       ELSE /\ pc' = [pc EXCEPT ![i] = "sleep"]
            /\ UNCHANGED <<child, exit_code>>
    /\ UNCHANGED <<evalVars, cur_cpu, sample_failed, host, callerAlive, req, tick, elapsed, process_group_id,
                   process_peak_memory, sampled, saved_bytes, bytes_read, pipe,
                   desc, thr, killAt, result>>

\* lines 155 and 179: time.sleep(SLEEP_BETWEEN_READS), then the next iteration
\* of range(max_iterations) or the end of the loop
Sleep(i) ==
    /\ callerAlive /\ pc[i] = "sleep"
    /\ elapsed' = [elapsed EXCEPT ![i] = @ + 1]
    /\ tick' = [tick EXCEPT ![i] = @ + 1]
    /\ pc' = [pc EXCEPT ![i] = IF tick[i] + 1 < max_iterations(i) THEN "sample" ELSE AfterLoop]
    /\ UNCHANGED <<evalVars, cur_cpu, sample_failed, host, callerAlive, req, process_group_id, exit_code,
                   process_peak_memory, sampled, saved_bytes, bytes_read, pipe, child,
                   desc, thr, killAt, result>>

\* ------------------------------------------------- read_stream (thread path)
\* lines 123-136: while the counter is below the cap, a blocking read of
\* MAX_BYTES_PER_READ bytes, which returns once that many bytes are there or
\* every writer has closed the pipe; an empty read or a full counter ends the
\* loop and the stream is closed.
read_stream(i, s) ==
    /\ callerAlive /\ thr[i][s] = "running"
    /\ IF Accepts(bytes_read[i][s], req[i].max_output_size)
       THEN LET n == Min(Avail(i, s), MAX_BYTES_PER_READ) IN
            /\ n = MAX_BYTES_PER_READ \/ ~Writers(i)
            /\ IF n > 0
               THEN /\ pipe' = [pipe EXCEPT ![i][s].r = @ + n]
                    /\ saved_bytes' = [saved_bytes EXCEPT ![i][s] =
                                          Append(@, <<pipe[i][s].r, n>>)]
                    /\ bytes_read' = [bytes_read EXCEPT ![i][s] = @ + n]
                    /\ UNCHANGED thr
               ELSE /\ pipe' = [pipe EXCEPT ![i][s].open = FALSE]
                    /\ thr' = [thr EXCEPT ![i][s] = "done"]
                    /\ UNCHANGED <<saved_bytes, bytes_read>>
       ELSE /\ pipe' = [pipe EXCEPT ![i][s].open = FALSE]
            /\ thr' = [thr EXCEPT ![i][s] = "done"]
            /\ UNCHANGED <<saved_bytes, bytes_read>>
    /\ UNCHANGED <<evalVars, cur_cpu, sample_failed, host, callerAlive, req, pc, tick, elapsed, process_group_id,
                   exit_code, process_peak_memory, sampled, child, desc, killAt, result>>

\* lines 130-136: an error raised by stream.read is caught in the reader,
\* which stops capturing and closes the stream
read_stream_fail(i, s) ==
    /\ host.faulty /\ callerAlive /\ thr[i][s] = "running"
    /\ Accepts(bytes_read[i][s], req[i].max_output_size)
    /\ pipe' = [pipe EXCEPT ![i][s].open = FALSE]
    /\ thr' = [thr EXCEPT ![i][s] = "failed"]
    /\ UNCHANGED <<evalVars, cur_cpu, sample_failed, host, callerAlive, req, pc, tick, elapsed, process_group_id,
                   exit_code, process_peak_memory, sampled, saved_bytes, bytes_read,
                   child, desc, killAt, result>>

JoinStream(i) == IF pc[i] = "join_out" THEN "stdout" ELSE "stderr"
AfterJoin(i) == IF pc[i] = "join_out" THEN "join_err" ELSE "kill"

\* lines 156-157: join returns at once when the reader has finished
JoinDone(i) ==
    /\ callerAlive /\ pc[i] \in {"join_out", "join_err"}
    /\ thr[i][JoinStream(i)] \in {"done", "failed"}
    /\ pc' = [pc EXCEPT ![i] = AfterJoin(i)]
    /\ UNCHANGED <<evalVars, cur_cpu, sample_failed, host, callerAlive, req, tick, elapsed, process_group_id, exit_code,
                   process_peak_memory, sampled, saved_bytes, bytes_read, pipe, child,
                   desc, thr, killAt, result>>

\* the reader is inside a blocking read that cannot return yet
ReaderBlocked(i, s) ==
    /\ thr[i][s] = "running"
    /\ Accepts(bytes_read[i][s], req[i].max_output_size)
    /\ Avail(i, s) < MAX_BYTES_PER_READ
    /\ Writers(i)

\* lines 156-157: join(timeout=0.5) gives up on a reader that stays blocked
\* in its read for the half second
JoinTimeout(i) ==
    /\ callerAlive /\ pc[i] \in {"join_out", "join_err"}
    /\ ReaderBlocked(i, JoinStream(i))
    /\ elapsed' = [elapsed EXCEPT ![i] = @ + JOIN_TIMEOUT_TICKS]
    /\ pc' = [pc EXCEPT ![i] = AfterJoin(i)]
    /\ UNCHANGED <<evalVars, cur_cpu, sample_failed, host, callerAlive, req, tick, process_group_id, exit_code,
                   process_peak_memory, sampled, saved_bytes, bytes_read, pipe, child,
                   desc, thr, killAt, result>>

\* ------------------------------------------------------------ run(): reaper
\* lines 181-187: SIGKILL to every process of the group process_group_id, the
\* caller's own group included when the child was left in it; p.kill() on the
\* tracked process alone when there is no group id.
Kill(i) ==
    /\ callerAlive /\ pc[i] = "kill"
    /\ killAt' = [killAt EXCEPT ![i] = Some(elapsed[i])]
    /\ IF ~IsNone(process_group_id[i])
       THEN LET g == Val(process_group_id[i]) IN
            /\ child' = [j \in Inv |-> KilledChild(child[j], g)]
            /\ desc' = [j \in Inv |-> KilledDesc(desc[j], g)]
            /\ callerAlive' = (g # CallerPgid)
       ELSE /\ child' = [child EXCEPT ![i] = KilledChild(@, @.pgid)]
            /\ UNCHANGED <<desc, callerAlive>>
    /\ pc' = [pc EXCEPT ![i] = IF callerAlive' THEN "assemble" ELSE @]
    /\ UNCHANGED <<evalVars, cur_cpu, sample_failed, host, req, tick, elapsed, process_group_id, exit_code,
                   process_peak_memory, sampled, saved_bytes, bytes_read, pipe,
                   thr, result>>

\* --------------------------------------------------- run(): result assembler
\* line 111 is the only assignment to process_cpu in run()
process_cpu(i) == 0

\* line 209: round(process_cpu / SC_CLK_TCK, 2), in hundredths of a second
CpuTime(ticks) == (ticks * 100) \div SC_CLK_TCK

\* lines 194-199, in percent; delta is system_cpu_end - system_cpu_start
CpuUtil(ticks, delta) ==
    IF delta # 0 THEN (ticks * 100 * CPU_COUNT) \div delta ELSE 0

\* lines 36-46 and 110, 193: the system CPU counter is 0 off POSIX, so the
\* difference is 0 there; on POSIX it may or may not have advanced
SystemCpuDeltas == IF host.platform = "posix" THEN {0, 1} ELSE {0}

\* lines 189-213
Assemble(i) ==
    /\ callerAlive /\ pc[i] = "assemble"
    /\ \E delta \in SystemCpuDeltas :
         result' = [result EXCEPT ![i] = Some(
          [timeout |-> TimeoutOf(exit_code[i]),
           exit_code |-> ExitCodeOf(exit_code[i]),
           stdout |-> Decode(JoinChunks(req[i].prog, "stdout", saved_bytes[i]["stdout"])),
           stderr |-> Decode(JoinChunks(req[i].prog, "stderr", saved_bytes[i]["stderr"])),
           process_cpu_util |-> CpuUtil(process_cpu(i), delta),
           process_cpu_time |-> CpuTime(process_cpu(i)),
           process_exec_time |-> elapsed[i],
           process_peak_memory |-> process_peak_memory[i]])]
    /\ pc' = [pc EXCEPT ![i] = "done"]
    /\ UNCHANGED <<evalVars, cur_cpu, sample_failed, host, callerAlive, req, tick, elapsed, process_group_id, exit_code,
                   process_peak_memory, sampled, saved_bytes, bytes_read, pipe, child,
                   desc, thr, killAt>>

\* --------------------------------------------------------- the process tree
CurOp(i) == Prog(req[i].prog)[child[i].ip]

\* free space of the pipe of stream s
Free(i, s) == PipeCapacity - Avail(i, s)

\* the child is blocked in a write: the pipe is full and its reader has not
\* closed it
Stalled(i) ==
    /\ child[i].state = "running" /\ CurOp(i).op = "write"
    /\ pipe[i][CurOp(i).s].open /\ Free(i, CurOp(i).s) = 0

\* the child writes n bytes: as many as the pipe has room for now, the rest
\* (pend) when the reader has made room; the write fails and the bytes are
\* lost when the reader has closed the pipe
ChildWrite(i) ==
    /\ child[i].state = "running" /\ CurOp(i).op = "write"
    /\ LET s == CurOp(i).s
           todo == IF child[i].pend > 0 THEN child[i].pend ELSE CurOp(i).n
           k == Min(todo, Free(i, s))
       IN  IF pipe[i][s].open
           THEN /\ k > 0
                /\ pipe' = [pipe EXCEPT ![i][s].w = @ + k]
                /\ child' = [child EXCEPT ![i].ip = IF k = todo THEN @ + 1 ELSE @,
                                          ![i].pend = todo - k]
           ELSE /\ child' = [child EXCEPT ![i].ip = @ + 1, ![i].pend = 0]
                /\ UNCHANGED pipe
    /\ UNCHANGED <<evalVars, cur_cpu, sample_failed, host, callerAlive, req, pc, tick, elapsed, process_group_id,
                   exit_code, process_peak_memory, sampled, saved_bytes, bytes_read,
                   desc, thr, killAt, result>>

\* the child forks a descendant, which inherits its group and its pipes
ChildFork(i) ==
    /\ child[i].state = "running" /\ CurOp(i).op = "fork"
    /\ desc' = [desc EXCEPT ![i] = [state |-> "running", pgid |-> child[i].pgid]]
    /\ child' = [child EXCEPT ![i].ip = @ + 1]
    /\ UNCHANGED <<evalVars, cur_cpu, sample_failed, host, callerAlive, req, pc, tick, elapsed, process_group_id,
                   exit_code, process_peak_memory, sampled, saved_bytes, bytes_read,
                   pipe, thr, killAt, result>>

\* the child ends with its status, at some moment of the current interval
ChildExit(i) ==
    /\ child[i].state = "running" /\ CurOp(i).op = "exit"
    /\ child' = [child EXCEPT ![i].state = "zombie", ![i].status = CurOp(i).code,
                              ![i].exitAt = elapsed[i]]
    /\ UNCHANGED <<evalVars, cur_cpu, sample_failed, host, callerAlive, req, pc, tick, elapsed, process_group_id,
                   exit_code, process_peak_memory, sampled, saved_bytes, bytes_read,
                   pipe, desc, thr, killAt, result>>

\* the descendant detaches into a session of its own (setsid)
DescSetsid(i) ==
    /\ desc[i].state = "running" /\ desc[i].pgid = LaunchPgid(i)
    /\ desc' = [desc EXCEPT ![i].pgid = 100 + i]
    /\ UNCHANGED <<evalVars, cur_cpu, sample_failed, host, callerAlive, req, pc, tick, elapsed, process_group_id,
                   exit_code, process_peak_memory, sampled, saved_bytes, bytes_read,
                   pipe, child, thr, killAt, result>>

\* the descendant ends by itself
DescExit(i) ==
    /\ desc[i].state = "running"
    /\ desc' = [desc EXCEPT ![i] = DeadDesc]
    /\ UNCHANGED <<evalVars, cur_cpu, sample_failed, host, callerAlive, req, pc, tick, elapsed, process_group_id,
                   exit_code, process_peak_memory, sampled, saved_bytes, bytes_read,
                   pipe, child, thr, killAt, result>>

Next ==
    \E i \in Inv :
        \/ LaunchFail(i) \/ LaunchOk(i)
        \/ Sample(i) \/ SampleFail(i) \/ ReadOut(i) \/ ReadErr(i) \/ LoopReadFail(i)
        \/ Poll(i) \/ Sleep(i)
        \/ \E s \in Streams : read_stream(i, s)
        \/ \E s \in Streams : read_stream_fail(i, s)
        \/ JoinDone(i) \/ JoinTimeout(i)
        \/ Kill(i) \/ Assemble(i)
        \/ ChildWrite(i) \/ ChildFork(i) \/ ChildExit(i)
        \/ DescSetsid(i) \/ DescExit(i)

Spec == Init /\ [][Next]_vars

\* Two invocations of run() with the same arguments, running in parallel in
\* one calling process (one invocation alone where the reader threads may
\* fail).
PairReqs(progs) == [timeout_seconds : {1}, max_output_size : {2048}, prog : progs]

InitPair ==
    \/ InitWith({1, 2}, [platform : {"posix"}, sandbox : BOOLEAN, mem : {{0}},
                         cpu : {{0}}, faulty : {FALSE}],
                PairReqs({"echo"}))
    \/ InitWith({1, 2}, [platform : {"posix"}, sandbox : {FALSE}, mem : {{0}},
                         cpu : {{0}}, faulty : {FALSE}],
                PairReqs({"forker"}))
    \/ InitWith({1, 2}, [platform : {"nt"}, sandbox : BOOLEAN, mem : {{0}},
                         cpu : {{0}}, faulty : {FALSE}],
                PairReqs({"exit2"}))
    \/ InitWith({1, 2}, [platform : {"posix"}, sandbox : {FALSE}, mem : {{0}},
                         cpu : {{0}}, faulty : {TRUE}],
                PairReqs({"exit2"}))
    \/ InitWith({1}, [platform : {"nt"}, sandbox : {FALSE}, mem : {{0}},
                      cpu : {{0}}, faulty : {TRUE}],
                PairReqs({"exit2"}))

SpecPair == InitPair /\ [][Next]_vars

\* ------------------------------------------------- run_eval.py: run_one, main
\* run_eval.py line 36: a new environment, with or without a syntax error
NewEnv(syntax_error) == [id |-> Len(env_log) + 1, syntax_error |-> syntax_error]

\* an exception skips the clean-up
LeaveTrySkipOnRaise(how) == IF how = "raise" THEN "crashed" ELSE "finally"
\* run_eval.py lines 37 and 62: whatever leaves the try block, a return or an
\* exception, goes through the finally clause
LeaveTry(how) == "finally"

\* main(), run_eval.py lines 82-87: the next record is read and run_one is
\* called with it (lines 24-34 build the request)
NextRecord ==
    /\ run_one_pc = "main" /\ records_left > 0
    /\ records_left' = records_left - 1
    /\ run_one_pc' = "build"
    /\ UNCHANGED <<runVars, language_config, leaving, env_log>>

\* main(), run_eval.py lines 82 and 96-123: no record is left
EndOfFile ==
    /\ run_one_pc = "main" /\ records_left = 0
    /\ run_one_pc' = "end"
    /\ UNCHANGED <<runVars, records_left, language_config, leaving, env_log>>

\* run_eval.py line 36: build_code_env returns an environment
BuildOk ==
    /\ run_one_pc = "build"
    /\ \E syntax_error \in BOOLEAN :
          language_config' = Some(NewEnv(syntax_error))
    /\ env_log' = Append(env_log, <<>>)
    /\ run_one_pc' = "check"
    /\ UNCHANGED <<runVars, records_left, leaving>>

\* run_eval.py line 36 raises, outside the try: nothing was built, the
\* exception leaves run_one and main
BuildRaise ==
    /\ run_one_pc = "build"
    /\ run_one_pc' = "crashed"
    /\ UNCHANGED <<runVars, records_left, language_config, leaving, env_log>>

\* run_eval.py lines 38-40: the early return for a syntax error
CheckSyntax ==
    /\ run_one_pc = "check"
    /\ IF Val(language_config).syntax_error
       THEN /\ leaving' = "return"
            /\ run_one_pc' = LeaveTry("return")
       ELSE /\ run_one_pc' = "execute"
            /\ UNCHANGED leaving
    /\ UNCHANGED <<runVars, records_left, language_config, env_log>>

\* run_eval.py lines 43-61: executor.execute(language_config, TIMEOUT) returns
\* and the row is computed, or it (or the use of its result) raises
Execute ==
    /\ run_one_pc = "execute"
    /\ env_log' = [env_log EXCEPT ![Val(language_config).id] = Append(@, "execute")]
    /\ \E how \in {"return", "raise"} :
          /\ leaving' = how
          /\ run_one_pc' = LeaveTry(how)
    /\ UNCHANGED <<runVars, records_left, language_config>>

\* run_eval.py lines 62-63: destroy_code_env(language_config), which may
\* raise itself; then run_one returns to main (line 87) or the exception
\* goes on
Destroy ==
    /\ run_one_pc = "finally"
    /\ env_log' = [env_log EXCEPT ![Val(language_config).id] = Append(@, "destroy")]
    /\ \E destroyed \in BOOLEAN :
          run_one_pc' = IF leaving = "return" /\ destroyed THEN "main" ELSE "crashed"
    /\ language_config' = None
    /\ UNCHANGED <<runVars, records_left, leaving>>

NextEval ==
    \/ NextRecord \/ EndOfFile
    \/ BuildOk \/ BuildRaise
    \/ CheckSyntax \/ Execute \/ Destroy

\* main() of run_eval on an input file of 1 .. MaxRecords records
InitEval ==
    /\ RunInit({}, [platform : {"posix"}, sandbox : {FALSE}, mem : {{0}},
                    cpu : {{0}}, faulty : {FALSE}],
               OneReq({"echo"}))
    /\ run_one_pc = "main"
    /\ records_left \in 1 .. MaxRecords
    /\ language_config = None
    /\ leaving = "return"
    /\ env_log = <<>>

SpecEval == InitEval /\ [][NextEval]_vars

\* ================================================================== claims
Returned(i) == pc[i] = "done" /\ ~IsNone(result[i])
Res(i) == Val(result[i])

\* the child ended by itself strictly before timeout_seconds had elapsed
ExitedBeforeDeadline(i) ==
    child[i].exitAt >= 0 /\ child[i].exitAt < max_iterations(i)

\* no read of invocation i has raised an error
NoReadError(i) ==
    pc[i] # "read_failed" /\ \A s \in Streams : thr[i][s] # "failed"

RECURSIVE SumLen(_)
SumLen(chunks) ==
    IF chunks = <<>> THEN 0 ELSE Head(chunks)[2] + SumLen(Tail(chunks))

\* C1: whenever the child ends by itself before the deadline, at whatever
\* moment between the ticks, the result has timeout = false and exit_code equal
\* to the child's exit status.
C1_ExitBeforeDeadlineReported ==
    \A i \in Inv :
        (Returned(i) /\ ExitedBeforeDeadline(i)) =>
            (Res(i).timeout = FALSE /\ Res(i).exit_code = child[i].status)

\* C2: in every result, timeout is true exactly when no poll observed (reaped)
\* an exit status; then exit_code is -1, otherwise it is the status observed.
C2_TimeoutIffNoStatus ==
    \A i \in Inv :
        Returned(i) =>
            /\ Res(i).timeout = (child[i].state # "reaped")
            /\ Res(i).timeout => Res(i).exit_code = -1
            /\ ~Res(i).timeout => Res(i).exit_code = child[i].status

C2_Witness ==
    \E i \in Inv :
        Returned(i) /\ Res(i).timeout /\ Res(i).exit_code = -1 /\ child[i].state = "zombie"

\* C3: once run has returned, neither the tracked process nor a descendant it
\* forked is still running.
C3_NoSurvivor ==
    \A i \in Inv :
        Returned(i) => (child[i].state # "running" /\ desc[i].state # "running")

\* C4: for each stream the byte counter equals the bytes buffered, never
\* exceeds max_output_size by more than one read chunk, and every chunk kept
\* was appended while the counter was still below max_output_size.
C4_OutputCap ==
    \A i \in Inv : \A s \in Streams :
        LET chunks == saved_bytes[i][s]
            cap == req[i].max_output_size
        IN  /\ bytes_read[i][s] = SumLen(chunks)
            /\ bytes_read[i][s] <= cap + MAX_BYTES_PER_READ
            /\ \A k \in 1 .. Len(chunks) :
                  /\ chunks[k][2] <= MAX_BYTES_PER_READ
                  /\ SumLen(SubSeq(chunks, 1, k - 1)) < cap

\* the counter has overshot the cap and bytes read later were discarded
C4_Witness ==
    \E i \in Inv : \E s \in Streams :
        /\ bytes_read[i][s] > req[i].max_output_size
        /\ req[i].max_output_size > 0
        /\ pipe[i][s].r > bytes_read[i][s]

\* C5: a child that writes "hello\n" (fewer bytes than max_output_size and
\* than one chunk) and exits with 0 before the deadline yields timeout = false,
\* exit_code = 0 and stdout = "hello\n", whatever the interleaving.
C5_EchoCaptured ==
    \A i \in Inv :
        (/\ Returned(i)
         /\ req[i].prog = "echo"
         /\ req[i].max_output_size > Len(Hello)
         /\ ExitedBeforeDeadline(i)
         /\ child[i].status = 0
         /\ NoReadError(i)) =>
            (Res(i).timeout = FALSE /\ Res(i).exit_code = 0 /\ Res(i).stdout = Hello)

\* C6: two calls with the same arguments on a deterministic command return
\* the same stdout, exit_code and timeout.
C6_SameInputsSameResult ==
    \A i, j \in Inv :
        (/\ Returned(i) /\ Returned(j) /\ req[i] = req[j] /\ req[i].prog = "echo"
         /\ NoReadError(i) /\ NoReadError(j)) =>
            /\ Res(i).stdout = Res(j).stdout
            /\ Res(i).exit_code = Res(j).exit_code
            /\ Res(i).timeout = Res(j).timeout

\* C7: when the tick budget ends without an exit observed, the kill is
\* issued right after the last sleep and the call returns with an elapsed time
\* within one sample interval of timeout_seconds, on both paths.
C7_HardTimeout ==
    \A i \in Inv :
        (Returned(i) /\ Res(i).timeout) =>
            /\ killAt[i] = Some(max_iterations(i))
            /\ Res(i).process_exec_time <= max_iterations(i) + 1

\* C8: a launch that fails raises: nothing was sampled, drained or killed and
\* no result exists; a result exists only for a process that was created.
C8_LaunchFailureRaises ==
    \A i \in Inv :
        /\ pc[i] = "raised" =>
              /\ IsNone(result[i]) /\ child[i] = NoChild /\ IsNone(killAt[i])
              /\ sampled[i] = {} /\ tick[i] = 0
              /\ \A s \in Streams :
                    saved_bytes[i][s] = <<>> /\ pipe[i][s].r = 0 /\ thr[i][s] = "none"
        /\ ~IsNone(result[i]) => child[i].state # "none"
        /\ (child[i].state = "none" /\ pc[i] # "launch") => pc[i] \in {"raised", "off"}

C8_Witness ==
    \E i \in Inv : pc[i] = "raised" /\ child[i].state = "none"

SetMax(S) == CHOOSE m \in S : \A n \in S : m >= n

\* the running peak is the maximum of the samples taken so far (0 when there
\* is none), and so is the value returned
C9_PeakState ==
    \A i \in Inv :
        /\ process_peak_memory[i] = SetMax(sampled[i] \cup {0})
        /\ ~IsNone(result[i]) => Res(i).process_peak_memory = SetMax(sampled[i] \cup {0})

\* C9: the running process_peak_memory never decreases from one step to the
\* next, and it (and the value returned) is at least every sample taken: it is
\* the maximum over the samples, 0 when there is none.
C9_PeakMonotone ==
    [](C9_PeakState)
    /\ [][\A i \in Inv : process_peak_memory'[i] >= process_peak_memory[i]]_vars

\* a lower sample was taken besides the one that set the peak
C9_Witness ==
    \E i \in Inv :
        Returned(i) /\ sampled[i] = {0, 1} /\ Res(i).process_peak_memory = 1

\* a step of run() in invocation i (the control flow or a reader thread)
RunStep(i) ==
    \/ LaunchFail(i) \/ LaunchOk(i)
    \/ Sample(i) \/ SampleFail(i) \/ ReadOut(i) \/ ReadErr(i) \/ LoopReadFail(i)
    \/ Poll(i) \/ Sleep(i)
    \/ \E s \in Streams : read_stream(i, s)
    \/ \E s \in Streams : read_stream_fail(i, s)
    \/ JoinDone(i) \/ JoinTimeout(i)
    \/ Kill(i) \/ Assemble(i)

\* C10: concurrent invocations are independent: no step of one invocation changes the processes, pipes, buffers or
\* result of another invocation, nor ends the calling process.
C10_Independent ==
    [][\A i \in Inv :
          RunStep(i) =>
             /\ callerAlive'
             /\ \A j \in Inv \ {i} :
                   /\ child'[j] = child[j] /\ desc'[j] = desc[j] /\ pipe'[j] = pipe[j]
                   /\ saved_bytes'[j] = saved_bytes[j] /\ result'[j] = result[j]]_vars

\* positions of run() inside the polling loop
LoopPcs == {"sample", "read_out", "read_err", "poll", "sleep"}

\* the polling loop of invocation i has been left, by an exit observed or by
\* the end of the tick budget
LoopLeft(i) ==
    ~IsNone(exit_code[i]) \/ tick[i] = req[i].timeout_seconds * TICKS_PER_SECOND

\* C11: where process groups exist, the child is in a new group of its own
\* even without a sandbox identity, so the group the kill signals holds only
\* the launched tree (not the caller, not another invocation's processes);
\* where there is no group id the kill goes to the tracked process alone.
C11_IsolatedGroup ==
    \A i \in Inv :
        child[i].state # "none" =>
            IF host.platform = "posix"
            THEN /\ process_group_id[i] = Some(child[i].pgid)
                 /\ child[i].pgid # CallerPgid
                 /\ \A j \in Inv \ {i} :
                       child[j].pgid # child[i].pgid /\ desc[j].pgid # child[i].pgid
            ELSE IsNone(process_group_id[i])

\* C12: the kill is attempted only after the polling loop has been left (by
\* an exit observed or by the end of the tick budget) and always before the
\* result is built: no result exists without the kill attempt made first.
C12_KillBeforeResult ==
    \A i \in Inv :
        /\ ~IsNone(killAt[i]) => LoopLeft(i)
        /\ pc[i] \in LoopPcs \cup {"launch", "join_out", "join_err"} =>
              IsNone(killAt[i]) /\ IsNone(result[i])
        /\ pc[i] = "assemble" => ~IsNone(killAt[i])
        /\ ~IsNone(result[i]) => ~IsNone(killAt[i])

\* a result returned after the kill on the branch where the loop ended by the
\* tick budget, on the thread path
C12_Witness ==
    \E i \in Inv :
        /\ Returned(i) /\ Res(i).timeout /\ ~IsNone(killAt[i])
        /\ host.platform = "nt" /\ tick[i] = max_iterations(i)

\* C13: a read error on stdout or stderr is recovered locally, on the
\* non-blocking loop path as on the reader-thread path: it never ends the run
\* before the kill and the result, and a run whose reader stopped on an error
\* still returns its result after the kill.
C13_ReadErrorRecovered ==
    \A i \in Inv :
        /\ ~(pc[i] = "read_failed" /\ IsNone(killAt[i]) /\ IsNone(result[i]))
        /\ (pc[i] = "done" /\ \E s \in Streams : thr[i][s] = "failed") =>
              (~IsNone(result[i]) /\ ~IsNone(killAt[i]))

\* C14: a sample that fails is not fatal: the step changes nothing but the
\* position (the peak keeps its value) and goes on to the same next step of
\* the tick as a sample that succeeded, the read on the non-blocking path and
\* the poll on the thread path; the peak stays the maximum of the samples
\* that succeeded.
C14_SampleFailureSkipped ==
    [](C9_PeakState)
    /\ [][\A i \in Inv :
            SampleFail(i) =>
               /\ process_peak_memory' = process_peak_memory
               /\ pc'[i] = IF host.platform = "nt" THEN "poll" ELSE "read_out"
               /\ UNCHANGED <<tick, elapsed, exit_code, saved_bytes, bytes_read, pipe,
                              child, thr, killAt, result>>]_vars

\* a sample failed after a peak had been recorded, and the run returned a
\* complete result with that peak
C14_Witness ==
    \E i \in Inv :
        /\ Returned(i) /\ sample_failed[i]
        /\ Res(i).process_peak_memory = 1
        /\ Res(i).timeout = FALSE /\ Res(i).exit_code = 2

\* the run timed out on a child that only writes and exits, killed while its
\* write was waiting for room in the full pipe, with no reader thread that
\* could have made room
KilledStalled(i) ==
    /\ Returned(i) /\ Res(i).timeout
    /\ req[i].prog = "gusher" /\ child[i].pend > 0
    /\ pipe[i]["stdout"].open /\ Free(i, "stdout") = 0
    /\ thr[i]["stdout"] # "running"

\* C15: the child is never left blocked on a full pipe while the drainer
\* waits for its next tick, however much it writes; a child that only writes
\* and exits is never killed as a timeout while blocked in its write.
C15_NeverStalled ==
    \A i \in Inv :
        /\ ~(/\ Stalled(i)
             /\ pc[i] = "sleep"
             /\ thr[i][CurOp(i).s] # "running")
        /\ ~KilledStalled(i)

\* C16: process_cpu_time is the CPU ticks of the tree the samples reported,
\* in seconds; when a sample reported ticks, process_cpu_time is not zero.
C16_CpuTimeReported ==
    \A i \in Inv :
        (Returned(i) /\ cur_cpu[i] > 0) =>
            /\ Res(i).process_cpu_time = CpuTime(cur_cpu[i])
            /\ Res(i).process_cpu_time > 0

\* C17: on the reader-thread path the result is built from the buffers only
\* after both readers have finished: no result exists while a reader is still
\* alive and able to append.
C17_ReadersFinished ==
    \A i \in Inv :
        ~IsNone(result[i]) => \A s \in Streams : thr[i][s] # "running"

\* in every state the tick counter is within timeout_seconds * 10, and the
\* loop is left once a poll has observed an exit
C18_TickState ==
    \A i \in Inv :
        /\ tick[i] <= req[i].timeout_seconds * TICKS_PER_SECOND
        /\ pc[i] \in LoopPcs =>
              /\ tick[i] < req[i].timeout_seconds * TICKS_PER_SECOND
              /\ IsNone(exit_code[i])

\* the steps of invocation i inside the loop follow the order of a tick
C18_Order(i) ==
    /\ (pc[i] = "sample" /\ pc'[i] \in LoopPcs) =>
          pc'[i] = IF host.platform = "nt" THEN "poll" ELSE "read_out"
    /\ (pc[i] = "read_out" /\ pc'[i] \in LoopPcs) => pc'[i] = "read_err"
    /\ (pc[i] = "read_err" /\ pc'[i] \in LoopPcs) => pc'[i] = "poll"
    /\ pc[i] = "poll" =>
          IF child[i].state = "zombie"
          THEN exit_code'[i] = Some(child[i].status) /\ pc'[i] \notin LoopPcs
          ELSE IsNone(exit_code'[i]) /\ pc'[i] = "sleep"
    /\ pc'[i] = "sleep" => (pc[i] = "poll" /\ IsNone(exit_code'[i]))
    /\ pc[i] = "sleep" =>
          /\ tick'[i] = tick[i] + 1 /\ elapsed'[i] = elapsed[i] + 1
          /\ pc'[i] = "sample" \/ pc'[i] \notin LoopPcs
    /\ pc'[i] = "sample" => pc[i] \in {"launch", "sleep"}
    /\ (pc[i] # "sleep" /\ pc[i] \notin {"join_out", "join_err"}) =>
          (tick'[i] = tick[i] /\ elapsed'[i] = elapsed[i])

\* C18: the loop runs at most timeout_seconds * 10 ticks; in a tick the
\* order is sample, per-tick read (non-blocking path), poll; the loop stops at
\* the first poll that observes an exit, and sleeps one interval only after a
\* poll that observed none.
C18_TickOrder ==
    [](C18_TickState)
    /\ [][\A i \in Inv : pc'[i] # pc[i] => C18_Order(i)]_vars

\* after some full ticks a poll has observed the exit and the loop was left
\* before the budget ended
C18_Witness ==
    \E i \in Inv :
        /\ Returned(i) /\ ~Res(i).timeout
        /\ tick[i] > 0 /\ tick[i] < max_iterations(i)

\* calls that an environment may have received so far
EnvLogs == {<<>>, <<"execute">>, <<"destroy">>, <<"execute", "destroy">>}

\* C19: every environment build_code_env returned is passed to
\* destroy_code_env exactly once before run_one returns or raises, after a
\* syntax error, a normal execute and an execute that raises; it is never
\* destroyed before it is executed.
C19_EnvDestroyedOnce ==
    /\ \A e \in 1 .. Len(env_log) : env_log[e] \in EnvLogs
    /\ run_one_pc \in {"main", "build", "crashed", "end"} =>
          /\ IsNone(language_config)
          /\ \A e \in 1 .. Len(env_log) :
                env_log[e] \in {<<"destroy">>, <<"execute", "destroy">>}
    /\ run_one_pc \in {"check", "execute", "finally"} =>
          /\ ~IsNone(language_config) /\ Val(language_config).id = Len(env_log)
          /\ env_log[Len(env_log)] \in {<<>>, <<"execute">>}
          /\ \A e \in 1 .. Len(env_log) - 1 :
                env_log[e] \in {<<"destroy">>, <<"execute", "destroy">>}

\* run_one has raised after an execute that raised, and an earlier call had
\* returned early for a syntax error: both environments were destroyed
C19_Witness ==
    /\ run_one_pc = "crashed" /\ leaving = "raise"
    /\ Len(env_log) >= 2
    /\ env_log[Len(env_log)] = <<"execute", "destroy">>
    /\ \E e \in 1 .. Len(env_log) : env_log[e] = <<"destroy">>

====
